---- MODULE Spec2Model ----
(***************************************************************************)
(* Squirrel AI: repository ingestion (checkout cache, chunking, embedding, *)
(* vector collection) and question answering, as implemented by            *)
(* src/backend/main.py, src/app.py and src/app_enhanced.py.                *)
(*                                                                         *)
(* The three programs share one design and differ in a few places; the     *)
(* variable "variant" says which program a behaviour is a run of.          *)
(***************************************************************************)
EXTENDS Integers, Sequences, FiniteSets, TLC

(***************************************************************************)
(* Bounds of the model.  CHUNK_SIZE / CHUNK_OVERLAP are settings of the    *)
(* programs ("SETTINGS: adjust these if needed"); the chunking loop is     *)
(* explored for every setting 1 <= C <= MaxChunk, 0 <= O < C and every     *)
(* text length 0 <= L <= MaxLen.                                           *)
(***************************************************************************)
MaxLen == 9

MaxChunk == 4

\* ------------------------------------------------------------------------
\* The chunking loop (the "while start < text_len" loop of clone_and_prepare)
\* ------------------------------------------------------------------------
VARIABLES
    ck_len,      \* text_len = len(text)
    ck_size,     \* CHUNK_SIZE
    ck_overlap,  \* CHUNK_OVERLAP
    ck_start,    \* start
    ck_spans,    \* the (start_char, end_char) of the chunks appended so far
    ck_pc        \* "loop" while the while-loop runs, "done" after it exits

chunkVars == <<ck_len, ck_size, ck_overlap, ck_start, ck_spans, ck_pc>>

Min(a, b) == IF a < b THEN a ELSE b

\* a seeded fault: the end of a chunk not clamped to the length of the text
ChunkEndUnclamped(start, size, len) == start + size

\* end = min(start + CHUNK_SIZE, text_len)
ChunkEnd(start, size, len) == Min(start + size, len)

\* a seeded fault: the step forgets to subtract the overlap and skips a character
ChunkAdvanceSkipping(start, size, overlap) == start + size + overlap

\* a seeded fault: the step subtracts the whole chunk again and start stays put
ChunkAdvanceStalled(start, size, overlap) == start + size - size

\* start += CHUNK_SIZE - CHUNK_OVERLAP
ChunkAdvance(start, size, overlap) == start + size - overlap

\* the spans the loop appends from "start" on, in the order it appends them
RECURSIVE ChunkSpansFrom(_, _, _, _)
ChunkSpansFrom(start, len, size, overlap) ==
    IF start < len
    THEN <<[start_char |-> start, end_char |-> ChunkEnd(start, size, len)]>>
         \o ChunkSpansFrom(ChunkAdvance(start, size, overlap), len, size, overlap)
    ELSE <<>>

\* start = 0; while start < text_len: ...
ChunkSpans(len, size, overlap) == ChunkSpansFrom(0, len, size, overlap)

ChunkInit ==
    /\ ck_len \in 0..MaxLen
    /\ ck_size \in 1..MaxChunk
    /\ ck_overlap \in 0..(ck_size - 1)
    /\ ck_start = 0
    /\ ck_spans = <<>>
    /\ ck_pc = "loop"

\* one iteration of the while loop
ChunkStep ==
    /\ ck_pc = "loop"
    /\ ck_start < ck_len
    /\ ck_spans' = Append(ck_spans,
           [start_char |-> ck_start,
            end_char |-> ChunkEnd(ck_start, ck_size, ck_len)])
    /\ ck_start' = ChunkAdvance(ck_start, ck_size, ck_overlap)
    /\ UNCHANGED <<ck_len, ck_size, ck_overlap, ck_pc>>

\* the loop condition fails
ChunkExit ==
    /\ ck_pc = "loop"
    /\ ~(ck_start < ck_len)
    /\ ck_pc' = "done"
    /\ UNCHANGED <<ck_len, ck_size, ck_overlap, ck_start, ck_spans>>

ChunkNext == ChunkStep \/ ChunkExit

\* ------------------------------------------------------------------------
\* C1: for every L >= 1 and O < C the fragments of a file cover [0, L) with
\* no gaps: the first starts at 0, the last ends at L, and every later
\* fragment starts at or before the end of the fragment before it.
\* ------------------------------------------------------------------------
C1_CoverageNoGaps ==
    (ck_pc = "done" /\ ck_len >= 1) =>
        /\ Len(ck_spans) >= 1
        /\ ck_spans[1].start_char = 0
        /\ ck_spans[Len(ck_spans)].end_char = ck_len
        /\ \A i \in 2..Len(ck_spans) :
               ck_spans[i].start_char <= ck_spans[i - 1].end_char

C1_Witness ==
    /\ ck_pc = "done"
    /\ ck_len = MaxLen
    /\ ck_overlap >= 1
    /\ Len(ck_spans) >= 3

\* ------------------------------------------------------------------------
\* C2 (as claimed): the number of fragments of a file of length L >= 1 is 1
\* if L <= C and ceil((L - O) / (C - O)) otherwise.
\* ------------------------------------------------------------------------
CeilDiv(a, b) == (a + b - 1) \div b

C2_CountAsClaimed ==
    (ck_pc = "done" /\ ck_len >= 1) =>
        Len(ck_spans) = IF ck_len <= ck_size
                        THEN 1
                        ELSE CeilDiv(ck_len - ck_overlap, ck_size - ck_overlap)

\* ------------------------------------------------------------------------
\* Data of the system model
\* ------------------------------------------------------------------------
Variants == {"backend", "app", "enhanced"}

\* request handlers / browser sessions; requests served one after another all
\* go through the first
Procs == {"p1", "p2"}

SeqProcs == {"p1"}

URLs == {"uA", "uB"}

\* the settings the system model runs with (scaled: texts are a few characters)
SysChunkSize == 3

SysChunkOverlap == 1

SysTopK == 2

\* chat turns kept per session before the model stops asking
MaxHistory == 1

\* language-model calls for one URL's summary are counted up to this number
MaxCounted == 2

\* hashlib.sha256(url).hexdigest(): 64 hex digits (20 are kept here), as numbers
Sha256Hex(url) ==
    IF url = "uA"
    THEN <<3, 15, 0, 9, 12, 1, 1, 7, 4, 10, 2, 2, 8, 13, 5, 6, 11, 0, 14, 9>>
    ELSE <<11, 4, 4, 1, 0, 15, 2, 9, 9, 6, 13, 3, 7, 7, 12, 8, 1, 5, 10, 0>>

\* a seeded fault: the digest not cut to its first 16 digits
hash_url_untruncated(url) == Sha256Hex(url)

\* hexdigest()[:16]
hash_url(url) == SubSeq(Sha256Hex(url), 1, 16)

\* repo_dir = CACHE_DIR / repo_hash
RepoDir(url) == <<"cached_repos", hash_url(url)>>

\* the repositories behind the URLs.  A file: its relative path (as the tokens
\* of the string), its suffix, its text, and what ast.parse finds in it.
FileA1 == [path |-> <<"a", ".py">>, ext |-> ".py", text |-> <<1, 2, 3, 4, 5>>,
           functions |-> <<"f1", "f2", "f3", "f4">>, classes |-> <<"K1">>]

FileB1 == [path |-> <<"b", ".js">>, ext |-> ".js", text |-> <<7, 8>>,
           functions |-> <<>>, classes |-> <<>>]

\* a checkout: the code files rglob finds (in its order), the README text and
\* the names of the top-level entries
RepoA == [files |-> <<FileA1>>, readme |-> <<"readme A">>,
          top |-> {"a.py", "README.md", ".git"}]

RepoB == [files |-> <<FileB1>>, readme |-> <<>>, top |-> {"b.js", ".git"}]

\* a repository with no recognised code file
RepoDocs == [files |-> <<>>, readme |-> <<"docs">>, top |-> {"README.md", ".git"}]

\* what each URL may hold: uA is RepoA; uB is RepoB or a documentation-only one
Upstreams == {[uA |-> RepoA, uB |-> RepoB], [uA |-> RepoA, uB |-> RepoDocs]}

\* questions, as the tokens of the string (" " is white space at an end)
QAbout == <<" ", "What", "is", "the", "Repo", "about", "?">>

QPurpose == <<"explain", "project", "purpose">>

QAuth == <<"how", "is", "auth", "implemented">>

Questions == {QAbout, QPurpose, QAuth}

\* the texts the language model may answer with
LLMTexts == {"r1", "r2"}

\* ------------------------------------------------------------------------
\* Pure helpers of the three programs
\* ------------------------------------------------------------------------
\* the sum of the elements of s, by halves (a chunk may hold hundreds of characters)
RECURSIVE SumSeq(_)
SumSeq(s) ==
    IF s = <<>> THEN 0
    ELSE IF Len(s) = 1 THEN s[1]
    ELSE LET half == Len(s) \div 2
         IN SumSeq(SubSeq(s, 1, half)) + SumSeq(SubSeq(s, half + 1, Len(s)))

\* str.lower(), token by token
LowerToken(t) ==
    CASE t = "What" -> "what"
      [] t = "Repo" -> "repo"
      [] OTHER -> t

Lower(q) == [i \in 1..Len(q) |-> LowerToken(q[i])]

\* str.strip(): white space removed at both ends
RECURSIVE StripLeft(_)
StripLeft(q) == IF q # <<>> /\ Head(q) = " " THEN StripLeft(Tail(q)) ELSE q

RECURSIVE StripRight(_)
StripRight(q) ==
    IF q # <<>> /\ q[Len(q)] = " " THEN StripRight(SubSeq(q, 1, Len(q) - 1)) ELSE q

Strip(q) == StripRight(StripLeft(q))

\* phrase in text
Contains(text, phrase) ==
    \E i \in 1..Len(text) :
        /\ i + Len(phrase) - 1 <= Len(text)
        /\ SubSeq(text, i, i + Len(phrase) - 1) = phrase

\* text.startswith(phrase)
StartsWith(text, phrase) ==
    /\ Len(phrase) <= Len(text)
    /\ SubSeq(text, 1, Len(phrase)) = phrase

PhraseRepoAbout == <<"repo", "about">>

PhraseWhatIsTheRepo == <<"what", "is", "the", "repo">>

PhraseProjectPurpose == <<"project", "purpose">>

\* the intent check at the top of answer_question
IsShortcut(v, question) ==
    LET lower_q == Lower(Strip(question)) IN
    IF v = "app"
    THEN Contains(lower_q, PhraseRepoAbout) \/ StartsWith(lower_q, PhraseWhatIsTheRepo)
    ELSE \E ph \in {PhraseRepoAbout, PhraseWhatIsTheRepo, PhraseProjectPurpose} :
             Contains(lower_q, ph)

\* extract_code_structure / the non-Python branch of parse_code_files, for one file
FileStructure(f) ==
    IF f.ext = ".py"
    THEN [kind |-> "py", functions |-> f.functions, classes |-> f.classes]
    ELSE [kind |-> "file", size |-> Len(f.text)]

\* the names the skip test looks for
SkipNames == {".git", "__pycache__", "node_modules", ".venv", "venv"}

\* exts: the suffixes the file loops glob for
Exts(v) ==
    IF v = "app"
    THEN {".py", ".js", ".ts", ".java", ".go", ".cpp", ".c", ".rb"}
    ELSE {".py", ".js", ".ts", ".java", ".go", ".cpp", ".c", ".rb",
          ".php", ".html", ".css", ".jsx", ".tsx"}

\* str(file_path): the cache directory, the sixteen hex digits, the relative path
StrPath(path) == <<"cached_repos", "/", "hex16", "/">> \o path

\* any(skip in text for skip in [...]): a substring test on the whole string
AnySkipIn(text) == \E skip \in SkipNames : Contains(text, <<skip>>)

\* whether the file loop of clone_and_prepare passes over the file (app.py has no test)
SkippedFile(v, f) == IF v = "app" THEN FALSE ELSE AnySkipIn(StrPath(f.path))

\* whether the file loop reads the file and cuts it into chunks
Chunked(v, f) == f.ext \in Exts(v) /\ ~SkippedFile(v, f)

\* parse_code_files(repo_path): rel_path -> structure
parse_code_files(files) ==
    LET kept == {files[i] : i \in {j \in 1..Len(files) :
                                       /\ files[j].ext \in Exts("backend")
                                       /\ ~AnySkipIn(files[j].path)}}
    IN [path \in {f.path : f \in kept} |->
           FileStructure(CHOOSE f \in kept : f.path = path)]

\* structure.get('functions', []) and structure.get('classes', [])
GetFunctions(st) == IF st.kind = "py" THEN st.functions ELSE <<>>

GetClasses(st) == IF st.kind = "py" THEN st.classes ELSE <<>>

\* _load_readme(repo_path)
load_readme(checkout) == checkout.readme

\* the chunks of one file, in the order the while loop appends them
FileChunks(v, f, size, overlap, src) ==
    LET spans == ChunkSpans(Len(f.text), size, overlap) IN
    [i \in 1..Len(spans) |->
        [document |-> SubSeq(f.text, spans[i].start_char + 1, spans[i].end_char),
         path |-> f.path,
         start_char |-> spans[i].start_char,
         end_char |-> spans[i].end_char,
         extension |-> IF v = "app" THEN "" ELSE f.ext,
         src |-> src]]

\* a seeded fault: the loop over the files leaving after its first file
BuildChunksFirstFileOnly(v, files, size, overlap, src) ==
    IF files = <<>> THEN <<>> ELSE FileChunks(v, Head(files), size, overlap, src)

\* code_chunks / metadatas after the two for loops over the files
RECURSIVE BuildChunks(_, _, _, _, _)
BuildChunks(v, files, size, overlap, src) ==
    IF files = <<>>
    THEN <<>>
    ELSE (IF Chunked(v, Head(files))
          THEN FileChunks(v, Head(files), size, overlap, src)
          ELSE <<>>)
         \o BuildChunks(v, Tail(files), size, overlap, src)

\* SentenceTransformer.encode of a chunk and of a question: a one-dimensional vector
EmbedText(doc) == SumSeq(doc) % 5

EmbedQuestion(q) == Len(q) % 5

Distance(a, b) == IF a < b THEN b - a ELSE a - b

\* collection.query(query_embeddings=[q], n_results=k): the entries nearest first,
\* entries at the same distance in insertion order
RECURSIVE RankFrom(_, _, _, _)
RankFrom(entries, left, qv, k) ==
    IF left = {} \/ k = 0
    THEN <<>>
    ELSE LET best == CHOOSE i \in left : \A j \in left :
                         \/ Distance(entries[i].embedding, qv) < Distance(entries[j].embedding, qv)
                         \/ /\ Distance(entries[i].embedding, qv) = Distance(entries[j].embedding, qv)
                            /\ i <= j
         IN <<entries[best]>> \o RankFrom(entries, left \ {best}, qv, k - 1)

Query(entries, qv, k) == RankFrom(entries, 1..Len(entries), qv, k)

\* str(n) of a natural number: its decimal digits
RECURSIVE str(_)
str(n) == IF n < 10 THEN <<n>> ELSE str(n \div 10) \o <<n % 10>>

\* a seeded fault: the ids counted from one, ids = [str(i + 1) ...]
NewEntriesFromOne(chunks, embeddings) ==
    [i \in 1..Len(chunks) |->
        [id |-> str(i),
         document |-> chunks[i].document,
         embedding |-> embeddings[i],
         path |-> chunks[i].path,
         start_char |-> chunks[i].start_char,
         end_char |-> chunks[i].end_char,
         extension |-> chunks[i].extension,
         src |-> chunks[i].src]]

\* ids = [str(i) ...] with documents, embeddings and metadatas, as collection.add gets them
NewEntries(chunks, embeddings) ==
    [i \in 1..Len(chunks) |->
        [id |-> str(i - 1),
         document |-> chunks[i].document,
         embedding |-> embeddings[i],
         path |-> chunks[i].path,
         start_char |-> chunks[i].start_char,
         end_char |-> chunks[i].end_char,
         extension |-> chunks[i].extension,
         src |-> chunks[i].src]]

\* a seeded fault: an add that stores the first entry before it fails
AddFailurePartial(existing, new) == existing \o SubSeq(new, 1, 1)

\* collection.add raising: nothing is stored
AddFailure(existing, new) == existing

\* collection.add succeeding: the batch is appended (an id already there is kept)
AddEntries(existing, new) ==
    existing \o SelectSeq(new,
        LAMBDA e : \A i \in 1..Len(existing) : existing[i].id # e.id)

\* ------------------------------------------------------------------------
\* Texts the programs produce.  A text is a record: "head" is how the string
\* begins, "kind" which code path built it.
\* ------------------------------------------------------------------------
SummaryErrorPrefix == "(Error generating summary: "

AnswerErrorPrefix == "(Error generating answer: "

\* response.choices[0].message.content.strip() / response["message"]["content"].strip()
LLMText(r) == [head |-> r, kind |-> "llm"]

\* f"(Error generating summary: {e})"
SummaryError == [head |-> SummaryErrorPrefix, kind |-> "error"]

\* a seeded fault: the answer's except clause re-labelled as a summary error
AnswerErrorMislabelled == [head |-> SummaryErrorPrefix, kind |-> "error"]

\* f"(Error generating answer: {e})"
AnswerError == [head |-> AnswerErrorPrefix, kind |-> "error"]

\* the fixed reply of the backend's shortcut
CannedReply == [head |-> "This is a repository analysis.", kind |-> "canned"]

\* "OpenAI client not available. Please set OPENAI_API_KEY."
NoClientReply == [head |-> "OpenAI client not available.", kind |-> "no_client"]

\* names starting with "." are left out of the top-level listing
DotNames == {".git"}

Listing(checkout) == checkout.top \ DotNames

RECURSIVE SumOver(_, _)
SumOver(S, cs) ==
    IF S = {}
    THEN [functions |-> 0, classes |-> 0]
    ELSE LET x == CHOOSE y \in S : TRUE
             rest == SumOver(S \ {x}, cs)
         IN [functions |-> rest.functions + Len(GetFunctions(cs[x])),
             classes |-> rest.classes + Len(GetClasses(cs[x]))]

\* the statistics generate_summary, generate_basic_summary and /analyze compute
TotalFiles(cs) == Cardinality(DOMAIN cs)

PythonFiles(cs) == Cardinality({x \in DOMAIN cs : x[Len(x)] = ".py"})

JsFiles(cs) == Cardinality({x \in DOMAIN cs : x[Len(x)] \in {".js", ".jsx", ".ts", ".tsx"}})

TotalFunctions(cs) == SumOver(DOMAIN cs, cs).functions

TotalClasses(cs) == SumOver(DOMAIN cs, cs).classes

\* generate_basic_summary(readme_text, repo_path, code_structure)
generate_basic_summary(readme, checkout, cs) ==
    [head |-> "## Repository Overview (Basic Analysis)",
     kind |-> "basic",
     total_files |-> TotalFiles(cs),
     python_files |-> PythonFiles(cs),
     js_files |-> JsFiles(cs),
     total_functions |-> TotalFunctions(cs),
     total_classes |-> TotalClasses(cs),
     listing |-> Listing(checkout),
     readme |-> readme,
     primary |-> IF PythonFiles(cs) > JsFiles(cs) THEN "Python"
                 ELSE IF JsFiles(cs) > PythonFiles(cs) THEN "JavaScript/TypeScript"
                 ELSE "mixed"]

\* what generate_summary returns when the language-model call raises
SummaryOnFailure(v, readme, checkout, cs) ==
    IF v = "enhanced"
    THEN generate_basic_summary(readme, checkout, cs)
    ELSE SummaryError

\* a seeded fault: the [:3] slice left out
FirstThreeUnsliced(names) == names

\* the first three names: [f['name'] for f in structure['functions'][:3]]
FirstThree(names) == SubSeq(names, 1, Min(3, Len(names)))

\* one labelled block of the context, for a retrieved chunk
ContextBlock(v, e, cs) ==
    IF v = "app"
    THEN [path |-> e.path, ext |-> "", functions |-> <<>>, classes |-> <<>>,
          chunk |-> e.document]
    ELSE [path |-> e.path,
          ext |-> e.extension,
          functions |-> IF e.path \in DOMAIN cs
                        THEN FirstThree(GetFunctions(cs[e.path])) ELSE <<>>,
          classes |-> IF e.path \in DOMAIN cs
                      THEN FirstThree(GetClasses(cs[e.path])) ELSE <<>>,
          chunk |-> e.document]

\* the prompt answer_question sends: the context blocks in rank order and the question
BuildPrompt(v, retrieved, cs, question) ==
    [context |-> [i \in 1..Len(retrieved) |-> ContextBlock(v, retrieved[i], cs)],
     question |-> question]

\* a seeded fault: a path is appended only if it is not in the list yet
ContextFilesDistinct(retrieved) ==
    LET paths == [i \in 1..Len(retrieved) |-> retrieved[i].path]
        first(i) == \A j \in 1..(i - 1) : paths[j] # paths[i]
        kept == {i \in 1..Len(paths) : first(i)}
        nth(n) == CHOOSE i \in kept : Cardinality({j \in kept : j < i}) = n - 1
    IN [n \in 1..Cardinality(kept) |-> paths[nth(n)]]

\* context_files: one path per retrieved chunk
ContextFiles(retrieved) == [i \in 1..Len(retrieved) |-> retrieved[i].path]

\* ------------------------------------------------------------------------
\* State of the system
\* ------------------------------------------------------------------------
VARIABLES
    variant,      \* which program runs: backend/main.py, app.py, app_enhanced.py
    upstream,     \* what a shallow clone of each URL fetches
    cfg,          \* the settings CHUNK_SIZE, CHUNK_OVERLAP, TOP_K
    cache_dirs,   \* the directories under CACHE_DIR: path -> contents
    tmp,          \* the tempfile.mkdtemp() directory of each request
    orphans,      \* a temporary directory of a finished request is still on disk
    colls,        \* the collections of the in-memory Chroma client: name -> entries
    clone_memo,   \* st.cache_resource of clone_and_prepare: url -> returned value
    summary_memo, \* st.cache_data of generate_summary: arguments -> returned text
    openai_env,   \* os.environ["OPENAI_API_KEY"] is set
    session,      \* st.session_state of each browser session
    pc,           \* where each request handler stands
    rq,           \* the request each handler serves and its local variables
    first_ret,    \* per URL, what the first returning clone_and_prepare returned
    summary_log   \* per URL, the language-model calls made for its summary (counted
                  \* up to MaxCounted) and the first summary handed to a caller

sysVars == <<variant, upstream, cfg, cache_dirs, tmp, orphans, colls, clone_memo,
             summary_memo, openai_env, session, pc, rq, first_ret, summary_log>>

vars == <<chunkVars, sysVars>>

Streamlit == variant \in {"app", "enhanced"}

\* collection_name = f"repo_chunks_{repo_hash}" in the backend, "repo_chunks" in the apps
CollectionName(v, url) ==
    IF v = "backend" THEN <<"repo_chunks", hash_url(url)>> ELSE <<"repo_chunks">>

\* what a request has called so far: git clone, encode of the chunks, collection.add,
\* encode of the question, collection.query, the language model
NoCalls == [clone |-> 0, embed |-> 0, add |-> 0, qembed |-> 0, query |-> 0, llm |-> 0]

IdleRq ==
    [kind |-> "none", url |-> "", question |-> <<>>, fallback |-> FALSE,
     hit |-> FALSE, found |-> <<>>, code_chunks |-> <<>>, embeddings |-> <<>>, ret |-> <<>>,
     retrieved |-> <<>>, prompt |-> <<>>, answer |-> <<>>, context_files |-> <<>>,
     summary |-> <<>>, response |-> <<>>, qstate |-> "", error |-> "",
     calls |-> NoCalls]

\* the initial st.session_state
FreshSession ==
    [repo_loaded |-> FALSE, repo_summary |-> <<>>, collection |-> <<>>,
     repo_path |-> <<>>, readme |-> <<>>, code_structure |-> <<>>,
     chat_history |-> <<>>]

ChunkOff ==
    /\ ck_len = 0
    /\ ck_size = 1
    /\ ck_overlap = 0
    /\ ck_start = 0
    /\ ck_spans = <<>>
    /\ ck_pc = "off"

SysInit ==
    /\ variant \in Variants
    /\ upstream \in Upstreams
    /\ cfg = [size |-> SysChunkSize, overlap |-> SysChunkOverlap, top_k |-> SysTopK]
    /\ cache_dirs = <<>>
    /\ tmp = [p \in Procs |-> "none"]
    /\ orphans = FALSE
    /\ colls = <<>>
    /\ clone_memo = <<>>
    /\ summary_memo = <<>>
    /\ openai_env = FALSE
    /\ session = [p \in Procs |-> FreshSession]
    /\ pc = [p \in Procs |-> "idle"]
    /\ rq = [p \in Procs |-> IdleRq]
    /\ first_ret = [u \in URLs |-> <<>>]
    /\ summary_log = [u \in URLs |-> [llm |-> 0, first |-> <<>>]]

Init == ChunkOff /\ SysInit

Terminal == {"idle", "done", "failed"}

\* requests are served one at a time (the backend's handlers never yield)
AllIdle == \A q \in Procs : pc[q] \in Terminal

\* the cache directory of url exists and its collection holds entries
CachedAndIndexed(url) ==
    /\ RepoDir(url) \in DOMAIN cache_dirs
    /\ CollectionName(variant, url) \in DOMAIN colls
    /\ Len(colls[CollectionName(variant, url)]) > 0

\* the state of the question once answer_question is entered
EnterState(next) == IF next = "aq_recv" THEN "RECEIVED" ELSE ""

\* a handler takes a new request; what its last request left in /tmp stays there
Begin(p, kind, url, question, fallback, first) ==
    /\ pc[p] \in Terminal
    /\ orphans' = (orphans \/ tmp[p] # "none")
    /\ tmp' = [tmp EXCEPT ![p] = "none"]
    /\ rq' = [rq EXCEPT ![p] = [IdleRq EXCEPT !.kind = kind, !.url = url,
                                   !.question = question, !.fallback = fallback,
                                   !.qstate = EnterState(first)]]
    /\ pc' = [pc EXCEPT ![p] = first]

\* POST /analyze
StartAnalyze(p, url) ==
    /\ variant = "backend"
    /\ Begin(p, "analyze", url, <<>>, FALSE, "cp_call")
    /\ UNCHANGED <<variant, upstream, cfg, cache_dirs, colls, clone_memo,
                   summary_memo, openai_env, session, first_ret, summary_log>>

\* POST /ask
StartAsk(p, question, url) ==
    /\ variant = "backend"
    /\ Begin(p, "ask", url, question, FALSE, "cp_call")
    /\ UNCHANGED <<variant, upstream, cfg, cache_dirs, colls, clone_memo,
                   summary_memo, openai_env, session, first_ret, summary_log>>

\* the "Load and Analyze" button, with a URL (and an API key in the enhanced app)
StartLoad(p, url, fallback) ==
    /\ Streamlit
    /\ variant = "app" => ~fallback
    /\ Begin(p, "load", url, <<>>, fallback, "cp_call")
    /\ openai_env' = (openai_env \/ variant = "enhanced")
    /\ UNCHANGED <<variant, upstream, cfg, cache_dirs, colls, clone_memo,
                   summary_memo, session, first_ret, summary_log>>

\* a question typed into a session that has a repository loaded
StartQuestion(p, question) ==
    /\ Streamlit
    /\ session[p].repo_loaded
    /\ Len(session[p].chat_history) < MaxHistory
    /\ Begin(p, "question", "", question, FALSE, "aq_recv")
    /\ session' = IF variant = "enhanced"
                  THEN [session EXCEPT ![p].chat_history =
                            Append(@, [question |-> question, answer |-> <<>>])]
                  ELSE session
    /\ UNCHANGED <<variant, upstream, cfg, cache_dirs, colls, clone_memo,
                   summary_memo, openai_env, first_ret, summary_log>>

\* the load button pressed with the URL field empty (url = ""), or in the
\* enhanced app with the API key field empty: st.sidebar.error(...) and nothing else
LoadRejected(p, url) ==
    /\ Streamlit
    /\ url = "" \/ variant = "enhanced"
    /\ pc[p] \in Terminal
    /\ orphans' = (orphans \/ tmp[p] # "none")
    /\ tmp' = [tmp EXCEPT ![p] = "none"]
    /\ rq' = [rq EXCEPT ![p] = [IdleRq EXCEPT !.kind = "load", !.url = url,
                                   !.error = "InputRejected"]]
    /\ pc' = [pc EXCEPT ![p] = "failed"]
    /\ UNCHANGED <<variant, upstream, cfg, cache_dirs, colls, clone_memo,
                   summary_memo, openai_env, session, first_ret, summary_log>>

\* ------------------------------------------------------------------------
\* clone_and_prepare(repo_url), step by step
\* ------------------------------------------------------------------------
\* where the caller goes on after clone_and_prepare returned
AfterPrepare(kind) == IF kind = "ask" THEN "aq_recv" ELSE "gs_call"

\* an exception leaves the handler: HTTP 500 in the backend; in the apps the
\* except clause of the load button sets repo_loaded to False
SessionOnError(p) ==
    IF Streamlit /\ rq[p].kind = "load"
    THEN [session EXCEPT ![p].repo_loaded = FALSE]
    ELSE session

\* the call itself: @st.cache_resource returns what an earlier call returned
CpCall(p) ==
    /\ pc[p] = "cp_call"
    /\ IF Streamlit /\ rq[p].url \in DOMAIN clone_memo
       THEN /\ rq' = [rq EXCEPT ![p].ret = <<clone_memo[rq[p].url]>>,
                                ![p].hit = CachedAndIndexed(rq[p].url),
                                ![p].qstate = EnterState(AfterPrepare(rq[p].kind))]
            /\ pc' = [pc EXCEPT ![p] = AfterPrepare(rq[p].kind)]
       ELSE /\ rq' = [rq EXCEPT ![p].hit = CachedAndIndexed(rq[p].url)]
            /\ pc' = [pc EXCEPT ![p] = "cp_exists"]
    /\ UNCHANGED <<variant, upstream, cfg, cache_dirs, tmp, orphans, colls,
                   clone_memo, summary_memo, openai_env, session, first_ret,
                   summary_log>>

\* if not repo_dir.exists(): tmp_clone = tempfile.mkdtemp()
CpExists(p) ==
    /\ pc[p] = "cp_exists"
    /\ IF RepoDir(rq[p].url) \in DOMAIN cache_dirs
       THEN /\ pc' = [pc EXCEPT ![p] = "cp_coll"]
            /\ tmp' = tmp
       ELSE /\ pc' = [pc EXCEPT ![p] = "cp_clone"]
            /\ tmp' = [tmp EXCEPT ![p] = "empty"]
    /\ UNCHANGED <<variant, upstream, cfg, cache_dirs, orphans, colls, clone_memo,
                   summary_memo, openai_env, session, rq, first_ret, summary_log>>

\* git clone --depth=1 succeeds
CpCloneOk(p) ==
    /\ pc[p] = "cp_clone"
    /\ tmp' = [tmp EXCEPT ![p] = "cloned"]
    /\ rq' = [rq EXCEPT ![p].calls.clone = @ + 1]
    /\ pc' = [pc EXCEPT ![p] = "cp_move"]
    /\ UNCHANGED <<variant, upstream, cfg, cache_dirs, orphans, colls, clone_memo,
                   summary_memo, openai_env, session, first_ret, summary_log>>

\* except subprocess.CalledProcessError: shutil.rmtree(tmp_clone, ignore_errors=True)
TmpAfterCalledProcessError(t) == "none"

\* git exits non-zero: the except clause cleans up and raises RuntimeError
CpCloneFails(p) ==
    /\ pc[p] = "cp_clone"
    /\ tmp' = [tmp EXCEPT ![p] = TmpAfterCalledProcessError(@)]
    /\ rq' = [rq EXCEPT ![p].calls.clone = @ + 1, ![p].error = "RuntimeError"]
    /\ pc' = [pc EXCEPT ![p] = "failed"]
    /\ session' = SessionOnError(p)
    /\ UNCHANGED <<variant, upstream, cfg, cache_dirs, orphans, colls, clone_memo,
                   summary_memo, openai_env, first_ret, summary_log>>

\* subprocess.run cannot start git (FileNotFoundError, PermissionError): not a
\* CalledProcessError, so no except clause runs
CpCloneOSError(p) ==
    /\ pc[p] = "cp_clone"
    /\ rq' = [rq EXCEPT ![p].calls.clone = @ + 1, ![p].error = "OSError"]
    /\ pc' = [pc EXCEPT ![p] = "failed"]
    /\ session' = SessionOnError(p)
    /\ UNCHANGED <<variant, upstream, cfg, cache_dirs, tmp, orphans, colls,
                   clone_memo, summary_memo, openai_env, first_ret, summary_log>>

\* shutil.move(tmp_clone, repo_dir) when os.rename works (one file system): into
\* the slot, or inside a directory that is already there
CpMove(p) ==
    /\ pc[p] = "cp_move"
    /\ LET dir == RepoDir(rq[p].url) IN
       cache_dirs' =
           IF dir \in DOMAIN cache_dirs
           THEN [cache_dirs EXCEPT ![dir].nested = @ + 1]
           ELSE (dir :> [checkout |-> upstream[rq[p].url], nested |-> 0,
                         complete |-> TRUE]) @@ cache_dirs
    /\ tmp' = [tmp EXCEPT ![p] = "none"]
    /\ pc' = [pc EXCEPT ![p] = "cp_coll"]
    /\ UNCHANGED <<variant, upstream, cfg, orphans, colls, clone_memo,
                   summary_memo, openai_env, session, rq, first_ret, summary_log>>

\* what copytree has put into the slot when it has created the directory and
\* not yet copied the entries
PartialCopy(checkout) == [files |-> <<>>, readme |-> <<>>, top |-> {}]

\* shutil.move when os.rename fails (tempfile.mkdtemp() is under /tmp, CACHE_DIR
\* under the working directory: two file systems): copytree creates repo_dir ...
CpCopyBegin(p) ==
    /\ pc[p] = "cp_move"
    /\ RepoDir(rq[p].url) \notin DOMAIN cache_dirs
    /\ cache_dirs' = (RepoDir(rq[p].url) :>
                          [checkout |-> PartialCopy(upstream[rq[p].url]),
                           nested |-> 0, complete |-> FALSE]) @@ cache_dirs
    /\ pc' = [pc EXCEPT ![p] = "cp_copy"]
    /\ UNCHANGED <<variant, upstream, cfg, tmp, orphans, colls, clone_memo,
                   summary_memo, openai_env, session, rq, first_ret, summary_log>>

\* ... copies the entries, and rmtree removes the temporary directory
CpCopyEnd(p) ==
    /\ pc[p] = "cp_copy"
    /\ cache_dirs' = [cache_dirs EXCEPT
                          ![RepoDir(rq[p].url)].checkout = upstream[rq[p].url],
                          ![RepoDir(rq[p].url)].complete = TRUE]
    /\ tmp' = [tmp EXCEPT ![p] = "none"]
    /\ pc' = [pc EXCEPT ![p] = "cp_coll"]
    /\ UNCHANGED <<variant, upstream, cfg, orphans, colls, clone_memo,
                   summary_memo, openai_env, session, rq, first_ret, summary_log>>

\* a seeded fault: the count() > 0 test dropped, the build always runs
AfterCollectionRebuild(count) == "cp_chunk"

\* if collection.count() > 0: return ...; otherwise go on to build
AfterCollection(count) == IF count > 0 THEN "cp_ret" ELSE "cp_chunk"

\* client.get_collection(name); count() > 0 returns; an exception creates it
CpColl(p) ==
    /\ pc[p] = "cp_coll"
    /\ LET name == CollectionName(variant, rq[p].url) IN
       IF name \in DOMAIN colls
       THEN /\ colls' = colls
            /\ rq' = [rq EXCEPT ![p].found = <<colls[name]>>]
            /\ pc' = [pc EXCEPT ![p] = AfterCollection(Len(colls[name]))]
       ELSE /\ colls' = (name :> <<>>) @@ colls
            /\ rq' = rq
            /\ pc' = [pc EXCEPT ![p] = "cp_chunk"]
    /\ UNCHANGED <<variant, upstream, cfg, cache_dirs, tmp, orphans, clone_memo,
                   summary_memo, openai_env, session, first_ret, summary_log>>

\* a seeded fault: the chunks go to the collection without being embedded
AfterChunkingUnembedded(chunks) == IF chunks = <<>> THEN "cp_ret" ELSE "cp_add"

\* if code_chunks: embed and store; otherwise return
AfterChunking(chunks) == IF chunks = <<>> THEN "cp_ret" ELSE "cp_embed"

\* the two for loops: every recognised file is read and cut into chunks
CpChunk(p) ==
    /\ pc[p] = "cp_chunk"
    /\ LET chunks == BuildChunks(variant,
                         cache_dirs[RepoDir(rq[p].url)].checkout.files,
                         cfg.size, cfg.overlap, rq[p].url)
       IN /\ rq' = [rq EXCEPT ![p].code_chunks = chunks]
          /\ pc' = [pc EXCEPT ![p] = AfterChunking(chunks)]
    /\ UNCHANGED <<variant, upstream, cfg, cache_dirs, tmp, orphans, colls,
                   clone_memo, summary_memo, openai_env, session, first_ret,
                   summary_log>>

\* embedder.encode(code_chunks) returns one vector per chunk
CpEmbedOk(p) ==
    /\ pc[p] = "cp_embed"
    /\ rq' = [rq EXCEPT
                 ![p].embeddings = [i \in 1..Len(rq[p].code_chunks) |->
                                       EmbedText(rq[p].code_chunks[i].document)],
                 ![p].calls.embed = @ + 1]
    /\ pc' = [pc EXCEPT ![p] = "cp_add"]
    /\ UNCHANGED <<variant, upstream, cfg, cache_dirs, tmp, orphans, colls,
                   clone_memo, summary_memo, openai_env, session, first_ret,
                   summary_log>>

\* SentenceTransformer(...) or encode raises
CpEmbedFails(p) ==
    /\ pc[p] = "cp_embed"
    /\ rq' = [rq EXCEPT ![p].calls.embed = @ + 1, ![p].error = "EmbeddingError"]
    /\ pc' = [pc EXCEPT ![p] = "failed"]
    /\ session' = SessionOnError(p)
    /\ UNCHANGED <<variant, upstream, cfg, cache_dirs, tmp, orphans, colls,
                   clone_memo, summary_memo, openai_env, first_ret, summary_log>>

\* collection.add(ids, documents, embeddings, metadatas)
CpAddOk(p) ==
    /\ pc[p] = "cp_add"
    /\ LET name == CollectionName(variant, rq[p].url) IN
       colls' = [colls EXCEPT ![name] =
                    AddEntries(@, NewEntries(rq[p].code_chunks, rq[p].embeddings))]
    /\ rq' = [rq EXCEPT ![p].calls.add = @ + 1]
    /\ pc' = [pc EXCEPT ![p] = "cp_ret"]
    /\ UNCHANGED <<variant, upstream, cfg, cache_dirs, tmp, orphans, clone_memo,
                   summary_memo, openai_env, session, first_ret, summary_log>>

\* collection.add raises
CpAddFails(p) ==
    /\ pc[p] = "cp_add"
    /\ LET name == CollectionName(variant, rq[p].url) IN
       colls' = [colls EXCEPT ![name] =
                    AddFailure(@, NewEntries(rq[p].code_chunks, rq[p].embeddings))]
    /\ rq' = [rq EXCEPT ![p].calls.add = @ + 1, ![p].error = "IndexError"]
    /\ pc' = [pc EXCEPT ![p] = "failed"]
    /\ session' = SessionOnError(p)
    /\ UNCHANGED <<variant, upstream, cfg, cache_dirs, tmp, orphans, clone_memo,
                   summary_memo, openai_env, first_ret, summary_log>>

\* return repo_path, collection, _load_readme(repo_path)[, parse_code_files(repo_path)]
PrepareResult(url) ==
    [repo_path |-> RepoDir(url),
     collection |-> CollectionName(variant, url),
     readme |-> load_readme(cache_dirs[RepoDir(url)].checkout),
     code_structure |-> IF variant = "app" THEN <<>>
                        ELSE parse_code_files(cache_dirs[RepoDir(url)].checkout.files)]

CpReturn(p) ==
    /\ pc[p] = "cp_ret"
    /\ LET url == rq[p].url
           ret == PrepareResult(url)
       IN /\ rq' = [rq EXCEPT ![p].ret = <<ret>>,
                                ![p].qstate = EnterState(AfterPrepare(rq[p].kind))]
          /\ clone_memo' = IF Streamlit THEN (url :> ret) @@ clone_memo ELSE clone_memo
          /\ first_ret' = IF first_ret[url] = <<>>
                          THEN [first_ret EXCEPT ![url] =
                                   <<[repo_path |-> ret.repo_path,
                                      entries |-> colls[ret.collection]]>>]
                          ELSE first_ret
    /\ pc' = [pc EXCEPT ![p] = AfterPrepare(rq[p].kind)]
    /\ UNCHANGED <<variant, upstream, cfg, cache_dirs, tmp, orphans, colls,
                   summary_memo, openai_env, session, summary_log>>

\* ------------------------------------------------------------------------
\* generate_summary(readme_text, repo_path, code_structure[, fallback_mode])
\* ------------------------------------------------------------------------
\* the arguments @st.cache_data keys the call by
SummaryKey(p) ==
    [readme |-> rq[p].ret[1].readme,
     repo_path |-> rq[p].ret[1].repo_path,
     code_structure |-> rq[p].ret[1].code_structure,
     fallback |-> rq[p].fallback]

\* a seeded fault: only what the language model answered is cached
MemoizedAnswersOnly(key, text) ==
    IF Streamlit /\ text.kind = "llm" THEN (key :> text) @@ summary_memo ELSE summary_memo

\* @st.cache_data: whatever the function returned is stored under its arguments
Memoized(key, text) == IF Streamlit THEN (key :> text) @@ summary_memo ELSE summary_memo

BasicSummaryOf(p) ==
    generate_basic_summary(rq[p].ret[1].readme,
                           cache_dirs[rq[p].ret[1].repo_path].checkout,
                           rq[p].ret[1].code_structure)

\* the call: a cached text, the offline summary (fallback mode, or no client),
\* or on to the language-model call
GsCall(p) ==
    /\ pc[p] = "gs_call"
    /\ IF Streamlit /\ SummaryKey(p) \in DOMAIN summary_memo
       THEN /\ rq' = [rq EXCEPT ![p].summary = <<summary_memo[SummaryKey(p)]>>]
            /\ summary_memo' = summary_memo
            /\ pc' = [pc EXCEPT ![p] = "respond"]
       ELSE IF variant = "enhanced" /\ (rq[p].fallback \/ ~openai_env)
       THEN /\ rq' = [rq EXCEPT ![p].summary = <<BasicSummaryOf(p)>>]
            /\ summary_memo' = Memoized(SummaryKey(p), BasicSummaryOf(p))
            /\ pc' = [pc EXCEPT ![p] = "respond"]
       ELSE /\ rq' = rq
            /\ summary_memo' = summary_memo
            /\ pc' = [pc EXCEPT ![p] = "gs_llm"]
    /\ UNCHANGED <<variant, upstream, cfg, cache_dirs, tmp, orphans, colls,
                   clone_memo, openai_env, session, first_ret, summary_log>>

\* one more language-model call for the summary of url
SummaryCalled(url) ==
    [summary_log EXCEPT ![url].llm = Min(@ + 1, MaxCounted)]

\* a summary of url goes back to a caller
SummaryReturned(url, summary) ==
    [summary_log EXCEPT ![url].first = IF @ = <<>> THEN summary ELSE @]

\* the language model answers
GsLLMOk(p, r) ==
    /\ pc[p] = "gs_llm"
    /\ rq' = [rq EXCEPT ![p].summary = <<LLMText(r)>>, ![p].calls.llm = @ + 1]
    /\ summary_memo' = Memoized(SummaryKey(p), LLMText(r))
    /\ pc' = [pc EXCEPT ![p] = "respond"]
    /\ summary_log' = SummaryCalled(rq[p].url)
    /\ UNCHANGED <<variant, upstream, cfg, cache_dirs, tmp, orphans, colls,
                   clone_memo, openai_env, session, first_ret>>

\* the language-model call raises: except Exception returns a text
GsLLMFails(p) ==
    /\ pc[p] = "gs_llm"
    /\ LET text == SummaryOnFailure(variant, rq[p].ret[1].readme,
                       cache_dirs[rq[p].ret[1].repo_path].checkout,
                       rq[p].ret[1].code_structure)
       IN /\ rq' = [rq EXCEPT ![p].summary = <<text>>, ![p].calls.llm = @ + 1,
                                ![p].error = "GenerationError"]
          /\ summary_memo' = Memoized(SummaryKey(p), text)
    /\ pc' = [pc EXCEPT ![p] = "respond"]
    /\ summary_log' = SummaryCalled(rq[p].url)
    /\ UNCHANGED <<variant, upstream, cfg, cache_dirs, tmp, orphans, colls,
                   clone_memo, openai_env, session, first_ret>>

\* the statistics of the /analyze response
Stats(cs) ==
    [total_files |-> TotalFiles(cs),
     total_functions |-> TotalFunctions(cs),
     total_classes |-> TotalClasses(cs)]

\* the caller after generate_summary: the apps fill st.session_state, the
\* backend builds its AnalyzeResponse
Respond(p) ==
    /\ pc[p] = "respond"
    /\ LET ret == rq[p].ret[1] IN
       IF Streamlit
       THEN /\ session' = [session EXCEPT ![p] =
                   [repo_loaded |-> TRUE,
                    repo_summary |-> rq[p].summary,
                    collection |-> <<ret.collection>>,
                    repo_path |-> <<ret.repo_path>>,
                    readme |-> ret.readme,
                    code_structure |-> ret.code_structure,
                    chat_history |-> <<>>]]
            /\ rq' = rq
       ELSE /\ session' = session
            /\ rq' = [rq EXCEPT ![p].response =
                   <<[summary |-> rq[p].summary[1],
                      readme |-> ret.readme,
                      code_structure |-> ret.code_structure,
                      stats |-> Stats(ret.code_structure)]>>]
    /\ pc' = [pc EXCEPT ![p] = "done"]
    /\ summary_log' = SummaryReturned(rq[p].url, rq[p].summary)
    /\ UNCHANGED <<variant, upstream, cfg, cache_dirs, tmp, orphans, colls,
                   clone_memo, summary_memo, openai_env, first_ret>>

\* ------------------------------------------------------------------------
\* answer_question(question, collection, code_structure, repo_path)
\* ------------------------------------------------------------------------
\* the collection and structure the caller passes in
AskedCollection(p) ==
    IF Streamlit THEN session[p].collection[1] ELSE rq[p].ret[1].collection

AskedStructure(p) ==
    IF Streamlit THEN session[p].code_structure ELSE rq[p].ret[1].code_structure

\* st.session_state.chat_history[-1] = (prompt, answer) in the enhanced app;
\* an answer is <<text>> (<<>> is the empty string)
SessionAfterAnswer(p, answer) ==
    IF variant = "enhanced"
    THEN [session EXCEPT ![p].chat_history =
             [@ EXCEPT ![Len(@)] = [question |-> rq[p].question, answer |-> answer]]]
    ELSE session

\* what the shortcut returns: st.session_state.repo_summary in the apps, a fixed
\* sentence in the backend
ShortcutReply(v, stored) == IF v = "backend" THEN <<CannedReply>> ELSE stored

\* the client check of the enhanced app and the intent check
AqRecv(p) ==
    /\ pc[p] = "aq_recv"
    /\ IF variant = "enhanced" /\ ~openai_env
       THEN /\ rq' = [rq EXCEPT ![p].answer = <<NoClientReply>>,
                                ![p].qstate = "DIRECT_ANSWER"]
            /\ session' = SessionAfterAnswer(p, <<NoClientReply>>)
            /\ pc' = [pc EXCEPT ![p] = "done"]
       ELSE IF IsShortcut(variant, rq[p].question)
       THEN LET answer == ShortcutReply(variant, session[p].repo_summary)
            IN /\ rq' = [rq EXCEPT ![p].answer = answer,
                                   ![p].qstate = "DIRECT_ANSWER"]
               /\ session' = SessionAfterAnswer(p, answer)
               /\ pc' = [pc EXCEPT ![p] = "done"]
       ELSE /\ rq' = [rq EXCEPT ![p].qstate = "RETRIEVE"]
            /\ session' = session
            /\ pc' = [pc EXCEPT ![p] = "aq_retrieve"]
    /\ UNCHANGED <<variant, upstream, cfg, cache_dirs, tmp, orphans, colls,
                   clone_memo, summary_memo, openai_env, first_ret, summary_log>>

\* embedder.encode([question]) and collection.query(..., n_results=TOP_K)
AqRetrieveOk(p) ==
    /\ pc[p] = "aq_retrieve"
    /\ rq' = [rq EXCEPT
                 ![p].retrieved = Query(colls[AskedCollection(p)],
                                        EmbedQuestion(rq[p].question), cfg.top_k),
                 ![p].calls.qembed = @ + 1,
                 ![p].calls.query = @ + 1,
                 ![p].qstate = "CONTEXT_BUILD"]
    /\ pc' = [pc EXCEPT ![p] = "aq_context"]
    /\ UNCHANGED <<variant, upstream, cfg, cache_dirs, tmp, orphans, colls,
                   clone_memo, summary_memo, openai_env, session, first_ret,
                   summary_log>>

\* SentenceTransformer(...) or encode raises: the exception leaves answer_question
AqRetrieveFails(p) ==
    /\ pc[p] = "aq_retrieve"
    /\ rq' = [rq EXCEPT ![p].calls.qembed = @ + 1, ![p].error = "EmbeddingError"]
    /\ pc' = [pc EXCEPT ![p] = "failed"]
    /\ UNCHANGED <<variant, upstream, cfg, cache_dirs, tmp, orphans, colls,
                   clone_memo, summary_memo, openai_env, session, first_ret,
                   summary_log>>

\* the labelled blocks, context_files and the prompt
AqContext(p) ==
    /\ pc[p] = "aq_context"
    /\ rq' = [rq EXCEPT
                 ![p].prompt = <<BuildPrompt(variant, rq[p].retrieved,
                                            AskedStructure(p), rq[p].question)>>,
                 ![p].context_files = ContextFiles(rq[p].retrieved),
                 ![p].qstate = "GENERATE"]
    /\ pc' = [pc EXCEPT ![p] = "aq_generate"]
    /\ UNCHANGED <<variant, upstream, cfg, cache_dirs, tmp, orphans, colls,
                   clone_memo, summary_memo, openai_env, session, first_ret,
                   summary_log>>

\* the language model answers: return text(, context_files)
AqGenerateOk(p, r) ==
    /\ pc[p] = "aq_generate"
    /\ rq' = [rq EXCEPT ![p].answer = <<LLMText(r)>>,
                        ![p].calls.llm = @ + 1,
                        ![p].qstate = "ANSWERED"]
    /\ session' = SessionAfterAnswer(p, <<LLMText(r)>>)
    /\ pc' = [pc EXCEPT ![p] = "done"]
    /\ UNCHANGED <<variant, upstream, cfg, cache_dirs, tmp, orphans, colls,
                   clone_memo, summary_memo, openai_env, first_ret, summary_log>>

\* a seeded fault: the except clause calling the language model again
AfterGenerateFailureRetry == "aq_generate"

\* a seeded fault: the except clause raising again instead of returning the text
AfterGenerateFailureRaise == "failed"

\* where answer_question stands after its except clause: it has returned
AfterGenerateFailure == "done"

\* the language-model call raises: except Exception returns the error text
\* (and an empty context_files)
AqGenerateFails(p) ==
    /\ pc[p] = "aq_generate"
    /\ rq' = [rq EXCEPT ![p].answer = <<AnswerError>>,
                        ![p].context_files = <<>>,
                        ![p].calls.llm = @ + 1,
                        ![p].error = "GenerationError",
                        ![p].qstate = "FAILED"]
    /\ session' = SessionAfterAnswer(p, <<AnswerError>>)
    /\ pc' = [pc EXCEPT ![p] = AfterGenerateFailure]
    /\ UNCHANGED <<variant, upstream, cfg, cache_dirs, tmp, orphans, colls,
                   clone_memo, summary_memo, openai_env, first_ret, summary_log>>

\* ------------------------------------------------------------------------
\* The system: requests one after another
\* ------------------------------------------------------------------------
Step(p) ==
    \/ CpCall(p)
    \/ CpExists(p)
    \/ CpCloneOk(p)
    \/ CpCloneFails(p)
    \/ CpCloneOSError(p)
    \/ CpMove(p)
    \/ CpCopyBegin(p)
    \/ CpCopyEnd(p)
    \/ CpColl(p)
    \/ CpChunk(p)
    \/ CpEmbedOk(p)
    \/ CpEmbedFails(p)
    \/ CpAddOk(p)
    \/ CpAddFails(p)
    \/ CpReturn(p)
    \/ GsCall(p)
    \/ \E r \in LLMTexts : GsLLMOk(p, r)
    \/ GsLLMFails(p)
    \/ Respond(p)
    \/ AqRecv(p)
    \/ AqRetrieveOk(p)
    \/ AqRetrieveFails(p)
    \/ AqContext(p)
    \/ \E r \in LLMTexts : AqGenerateOk(p, r)
    \/ AqGenerateFails(p)

Start(p) ==
    \/ \E url \in URLs : StartAnalyze(p, url)
    \/ \E url \in URLs, q \in Questions : StartAsk(p, q, url)
    \/ \E url \in URLs, fb \in BOOLEAN : StartLoad(p, url, fb)
    \/ \E q \in Questions : StartQuestion(p, q)

Next ==
    \/ \E p \in SeqProcs : AllIdle /\ Start(p) /\ UNCHANGED chunkVars
    \/ \E p \in SeqProcs : Step(p) /\ UNCHANGED chunkVars

Spec == Init /\ [][Next]_vars

\* the same system when every call a handler waits for (git, the embedding model,
\* Chroma, the language model) returns or raises: a handler that can take a step
\* takes one.  Nothing obliges a client to send another request.
FairSpec == Spec /\ \A p \in SeqProcs : WF_vars(Step(p) /\ UNCHANGED chunkVars)

\* ------------------------------------------------------------------------
\* The system with the settings of app.py and a repository of two recognised
\* files, A of 1200 characters and B of 50
\* ------------------------------------------------------------------------
CHUNK_SIZE == 500

CHUNK_OVERLAP == 50

TOP_K == 4

FileE2EA == [path |-> <<"A", ".py">>, ext |-> ".py",
             text |-> [i \in 1..1200 |-> i % 7],
             functions |-> <<"main">>, classes |-> <<>>]

FileE2EB == [path |-> <<"B", ".js">>, ext |-> ".js",
             text |-> [i \in 1..50 |-> i % 3],
             functions |-> <<>>, classes |-> <<>>]

RepoE2E == [files |-> <<FileE2EA, FileE2EB>>, readme |-> <<"readme E2E">>,
            top |-> {"A.py", "B.js", "README.md", ".git"}]

E2EInit ==
    /\ ChunkOff
    /\ variant \in Variants
    /\ upstream = [uA |-> RepoE2E, uB |-> RepoB]
    /\ cfg = [size |-> CHUNK_SIZE, overlap |-> CHUNK_OVERLAP, top_k |-> TOP_K]
    /\ cache_dirs = <<>>
    /\ tmp = [p \in Procs |-> "none"]
    /\ orphans = FALSE
    /\ colls = <<>>
    /\ clone_memo = <<>>
    /\ summary_memo = <<>>
    /\ openai_env = FALSE
    /\ session = [p \in Procs |-> FreshSession]
    /\ pc = [p \in Procs |-> "idle"]
    /\ rq = [p \in Procs |-> IdleRq]
    /\ first_ret = [u \in URLs |-> <<>>]
    /\ summary_log = [u \in URLs |-> [llm |-> 0, first |-> <<>>]]

\* the repository is analysed (backend) or loaded (apps), again and again
E2EStart(p) ==
    \/ StartAnalyze(p, "uA")
    \/ \E fb \in BOOLEAN : StartLoad(p, "uA", fb)

E2ENext ==
    \/ \E p \in SeqProcs : AllIdle /\ E2EStart(p) /\ UNCHANGED chunkVars
    \/ \E p \in SeqProcs : Step(p) /\ UNCHANGED chunkVars

SpecE2E == E2EInit /\ [][E2ENext]_vars

\* ------------------------------------------------------------------------
\* Concurrent sessions of one Streamlit server: every browser session runs the
\* script in a thread of its own; the threads share CACHE_DIR, the in-memory
\* Chroma client and the st.cache_* memos.  Each session loads one repository.
\* ------------------------------------------------------------------------
ConcInit ==
    /\ Init
    /\ Streamlit

ConcStart(p) ==
    /\ pc[p] = "idle"
    /\ \E url \in URLs, fb \in BOOLEAN : StartLoad(p, url, fb)

ConcNext ==
    \/ \E p \in Procs : ConcStart(p) /\ UNCHANGED chunkVars
    \/ \E p \in Procs : Step(p) /\ UNCHANGED chunkVars

SpecConc == ConcInit /\ [][ConcNext]_vars

\* the chunking loop on its own, for every length and setting within the bounds
\* one Streamlit session: loads, rejected loads and questions, one at a time
SessionInit ==
    /\ Init
    /\ Streamlit

SessionStart(p) ==
    \/ \E url \in URLs, fb \in BOOLEAN : StartLoad(p, url, fb)
    \/ \E url \in URLs \cup {""} : LoadRejected(p, url)
    \/ \E q \in Questions : StartQuestion(p, q)

SessionNext ==
    \/ \E p \in SeqProcs : AllIdle /\ SessionStart(p) /\ UNCHANGED chunkVars
    \/ \E p \in SeqProcs : Step(p) /\ UNCHANGED chunkVars

SpecSession == SessionInit /\ [][SessionNext]_vars

SysOff ==
    /\ variant = "backend"
    /\ upstream = [uA |-> RepoA, uB |-> RepoB]
    /\ cfg = [size |-> SysChunkSize, overlap |-> SysChunkOverlap, top_k |-> SysTopK]
    /\ cache_dirs = <<>>
    /\ tmp = [p \in Procs |-> "none"]
    /\ orphans = FALSE
    /\ colls = <<>>
    /\ clone_memo = <<>>
    /\ summary_memo = <<>>
    /\ openai_env = FALSE
    /\ session = [p \in Procs |-> FreshSession]
    /\ pc = [p \in Procs |-> "idle"]
    /\ rq = [p \in Procs |-> IdleRq]
    /\ first_ret = [u \in URLs |-> <<>>]
    /\ summary_log = [u \in URLs |-> [llm |-> 0, first |-> <<>>]]

ChunkSpecInit == ChunkInit /\ SysOff

ChunkSpecNext == ChunkNext /\ UNCHANGED sysVars

SpecChunk == ChunkSpecInit /\ [][ChunkSpecNext]_vars

\* the loop is sequential code: an iteration that can run does run
FairSpecChunk == SpecChunk /\ WF_vars(ChunkSpecNext)

\* ------------------------------------------------------------------------
\* Properties
\* ------------------------------------------------------------------------
\* clone_and_prepare has just returned to the handler p
JustPrepared(p) ==
    /\ rq[p].kind \in {"analyze", "ask", "load"}
    /\ pc[p] \in {"gs_call", "aq_recv"}

\* every fragment the chunking of url's repository yields, as the index stores them
EntriesOf(v, repo, size, overlap, url) ==
    LET chunks == BuildChunks(v, repo.files, size, overlap, url)
    IN NewEntries(chunks, [i \in 1..Len(chunks) |-> EmbedText(chunks[i].document)])

\* the same for the repositories and the configuration of Init, computed once
EntriesTable ==
    [v \in Variants, up \in Upstreams, url \in URLs |->
        EntriesOf(v, up[url], SysChunkSize, SysChunkOverlap, url)]

AllEntriesOf(url) ==
    IF upstream \in Upstreams /\ cfg.size = SysChunkSize /\ cfg.overlap = SysChunkOverlap
    THEN EntriesTable[variant, upstream, url]
    ELSE EntriesOf(variant, upstream[url], cfg.size, cfg.overlap, url)

\* the entries of url's collection that were cut from url's checkout
OwnEntries(url) ==
    SelectSeq(colls[CollectionName(variant, url)], LAMBDA e : e.src = url)

\* C3 (as claimed): a clone_and_prepare call for a URL whose cache directory
\* exists and whose collection holds entries does no checkout, no embedding and
\* no collection.add, and returns the repository path and the collection
\* entries that the first call for that URL returned.
C3_IdempotentCacheHit ==
    \A p \in Procs :
        (JustPrepared(p) /\ rq[p].hit) =>
            /\ rq[p].calls.clone = 0
            /\ rq[p].calls.embed = 0
            /\ rq[p].calls.add = 0
            /\ first_ret[rq[p].url] # <<>>
            /\ rq[p].ret[1].repo_path = first_ret[rq[p].url][1].repo_path
            /\ colls[rq[p].ret[1].collection] = first_ret[rq[p].url][1].entries

\* C4 (as claimed): a question matching an "about this repo" pattern is answered
\* with the stored repository summary, with no call to the embedding model, to
\* collection.query or to the language model.
C4_ShortcutBypass ==
    \A p \in Procs :
        (pc[p] = "done" /\ rq[p].qstate # "" /\ IsShortcut(variant, rq[p].question)) =>
            /\ rq[p].answer # <<>>
            /\ rq[p].answer[1].kind \in {"llm", "basic", "error"}
            /\ Streamlit => rq[p].answer = session[p].repo_summary
            /\ rq[p].calls.qembed = 0
            /\ rq[p].calls.query = 0
            /\ rq[p].calls.llm = 0

\* C5 (as claimed): when the language-model call of generate_summary fails, the
\* summary returned is the offline document, whose file, function and class
\* counts are those of the code_structure passed in; it is no error string.
C5_SummaryFallback ==
    \A p \in Procs :
        (rq[p].kind \in {"analyze", "load"} /\ rq[p].error = "GenerationError") =>
            /\ pc[p] # "failed"
            /\ rq[p].summary # <<>>
            /\ rq[p].summary[1].kind = "basic"
            /\ rq[p].summary[1].total_files = TotalFiles(rq[p].ret[1].code_structure)
            /\ rq[p].summary[1].total_functions =
                   TotalFunctions(rq[p].ret[1].code_structure)
            /\ rq[p].summary[1].total_classes =
                   TotalClasses(rq[p].ret[1].code_structure)

\* C6: when the language-model call of answer_question fails, answer_question
\* does not raise: the answer begins with "(Error generating answer:" and the
\* request completes normally.
C6_AnswerSoftError ==
    \A p \in Procs :
        (rq[p].kind \in {"ask", "question"} /\ rq[p].error = "GenerationError") =>
            /\ pc[p] = "done"
            /\ rq[p].qstate = "FAILED"
            /\ rq[p].answer # <<>>
            /\ rq[p].answer[1].head = AnswerErrorPrefix

C6_Witness ==
    \E p \in Procs :
        /\ rq[p].kind \in {"ask", "question"}
        /\ rq[p].error = "GenerationError"
        /\ rq[p].calls.llm = 1
        /\ pc[p] = "done"

\* C7 (as claimed): the collection clone_and_prepare returns for a URL holds
\* only fragments cut from that URL's checkout.
C7_CollectionPerRepository ==
    \A p \in Procs :
        JustPrepared(p) =>
            \A i \in 1..Len(colls[rq[p].ret[1].collection]) :
                colls[rq[p].ret[1].collection][i].src = rq[p].url

\* C8 (as claimed): when the checkout fails, for any reason, the call signals an
\* error, its temporary clone directory is gone and the URL has no cache directory.
C8_CheckoutFailureCleansUp ==
    \A p \in Procs :
        (rq[p].error \in {"RuntimeError", "OSError"}) =>
            /\ pc[p] = "failed"
            /\ tmp[p] = "none"
            /\ RepoDir(rq[p].url) \notin DOMAIN cache_dirs

\* C9: a build that embedding or collection.add fails aborts, and a repository's
\* collection holds all fragments of the repository or none of them, in every
\* state: also when a later call finds count() > 0 and returns it as indexed.
C9_CollectionAllOrNone ==
    /\ \A url \in URLs :
           CollectionName(variant, url) \in DOMAIN colls =>
               OwnEntries(url) \in {<<>>, AllEntriesOf(url)}
    /\ \A p \in Procs :
           (rq[p].kind \in {"analyze", "ask", "load"}
                /\ rq[p].error \in {"EmbeddingError", "IndexError"}) =>
               /\ pc[p] = "failed"
               /\ rq[p].calls.qembed = 1 \/ rq[p].ret = <<>>

\* a build aborted by collection.add, and the collection it left
C9_Witness ==
    \E p \in Procs :
        /\ pc[p] = "failed"
        /\ rq[p].error = "IndexError"
        /\ Len(rq[p].code_chunks) >= 2
        /\ colls[CollectionName(variant, rq[p].url)] = <<>>

\* answer_question took the question of p past the intent check
Retrieving(p) ==
    /\ rq[p].qstate # ""
    /\ ~IsShortcut(variant, rq[p].question)
    /\ ~(variant = "enhanced" /\ ~openai_env)

QTerminal == {"DIRECT_ANSWER", "ANSWERED", "FAILED"}

\* the transitions the state of a question may take inside answer_question
QTransitions ==
    {<<"RECEIVED", "DIRECT_ANSWER">>, <<"RECEIVED", "RETRIEVE">>,
     <<"RETRIEVE", "CONTEXT_BUILD">>, <<"CONTEXT_BUILD", "GENERATE">>,
     <<"GENERATE", "ANSWERED">>, <<"GENERATE", "FAILED">>}

\* one step of the system moves the question of p along a transition, or leaves
\* it where it is, or the handler takes up its next request
QStepAllowed(p) ==
    \/ rq'[p].qstate = rq[p].qstate
    \/ <<rq[p].qstate, rq'[p].qstate>> \in QTransitions
    \/ rq[p].qstate = "" /\ rq'[p].qstate = "RECEIVED"
    \/ pc[p] \in Terminal /\ rq'[p].qstate \in {"", "RECEIVED"}

\* the question of p is in a terminal state and its answer went back to the caller
QAnswered(p) ==
    /\ rq[p].qstate \in QTerminal
    /\ pc[p] = "done"
    /\ rq[p].answer # <<>>

\* the question of p ended with an exception raised by the embedding of the
\* question or by collection.query: no answer, the state is still RETRIEVE
QRaised(p) ==
    /\ rq[p].qstate = "RETRIEVE"
    /\ pc[p] = "failed"
    /\ rq[p].error = "EmbeddingError"
    /\ rq[p].answer = <<>>

C12_SummaryCachedPerRepository ==
    /\ \A url \in URLs : summary_log[url].llm <= 1
    /\ \A p \in Procs :
           (rq[p].kind \in {"analyze", "load"} /\ pc[p] = "done") =>
               rq[p].summary = summary_log[rq[p].url].first

\* ------------------------------------------------------------------------
\* The end-to-end example
\* ------------------------------------------------------------------------
\* the (start_char, end_char) of the chunks of one file, in the order of the list
SpansOfPath(chunks, path) ==
    LET own == SelectSeq(chunks, LAMBDA c : c.path = path) IN
    [i \in 1..Len(own) |-> <<own[i].start_char, own[i].end_char>>]

\* C13: with C = 500 and O = 50, a repository of two recognised files A (1200
\* characters) and B (50 characters) is cut into exactly 3 fragments of A with
\* spans [0,500), [450,950), [900,1200) and 1 fragment of B with span [0,50),
\* and the collection a build returns holds 4 entries: these 4.
C13_EndToEnd ==
    \A p \in Procs :
        /\ rq[p].code_chunks # <<>> =>
               /\ SpansOfPath(rq[p].code_chunks, FileE2EA.path)
                      = <<(<<0, 500>>), (<<450, 950>>), (<<900, 1200>>)>>
               /\ SpansOfPath(rq[p].code_chunks, FileE2EB.path) = <<(<<0, 50>>)>>
               /\ Len(rq[p].code_chunks) = 4
        /\ JustPrepared(p) =>
               /\ Len(colls[rq[p].ret[1].collection]) = 4
               /\ SpansOfPath(colls[rq[p].ret[1].collection], FileE2EA.path)
                      = <<(<<0, 500>>), (<<450, 950>>), (<<900, 1200>>)>>
               /\ SpansOfPath(colls[rq[p].ret[1].collection], FileE2EB.path)
                      = <<(<<0, 50>>)>>

\* a build of the example repository has returned its collection
C13_Witness ==
    \E p \in Procs :
        /\ JustPrepared(p)
        /\ rq[p].calls.add = 1
        /\ Len(rq[p].code_chunks) = 4
        /\ Len(colls[rq[p].ret[1].collection]) = 4
        /\ cfg.size = CHUNK_SIZE
        /\ cfg.overlap = CHUNK_OVERLAP

\* ------------------------------------------------------------------------
\* More on the chunking loop
\* ------------------------------------------------------------------------
\* C14 (as claimed): a file of length 0 < L < C yields exactly one fragment,
\* and it spans the whole file, [0, L).
C14_ShortFileOneFragment ==
    (ck_pc = "done" /\ 0 < ck_len /\ ck_len < ck_size) =>
        ck_spans = <<[start_char |-> 0, end_char |-> ck_len]>>

\* C17: for every L, C and O < C, the i-th fragment appended (counting from 0)
\* has start offset i*(C-O) and end offset min(i*(C-O)+C, L); the start offsets
\* increase; and the loop stops at the first i with i*(C-O) >= L.
C17_FragmentOffsets ==
    LET stride == ck_size - ck_overlap IN
    /\ \A i \in 1..Len(ck_spans) :
           /\ ck_spans[i].start_char = (i - 1) * stride
           /\ ck_spans[i].end_char = Min((i - 1) * stride + ck_size, ck_len)
           /\ (i - 1) * stride < ck_len
    /\ \A i \in 2..Len(ck_spans) :
           ck_spans[i - 1].start_char < ck_spans[i].start_char
    /\ ck_start = Len(ck_spans) * stride
    /\ ck_pc = "done" => Len(ck_spans) * stride >= ck_len

\* a file cut into three fragments or more, the last one shorter than C
C17_Witness ==
    /\ ck_pc = "done"
    /\ Len(ck_spans) >= 3
    /\ ck_overlap >= 1
    /\ ck_spans[Len(ck_spans)].end_char - ck_spans[Len(ck_spans)].start_char < ck_size
    /\ ck_spans[Len(ck_spans)].end_char = ck_len

\* C18 (as claimed): in a file that yields two fragments or more, every two
\* consecutive fragments overlap by exactly O characters, the last two included.
C18_ExactOverlap ==
    ck_pc = "done" =>
        \A i \in 1..(Len(ck_spans) - 1) :
            ck_spans[i].end_char - ck_spans[i + 1].start_char = ck_overlap

\* ------------------------------------------------------------------------
\* The cache directory and the collection across calls
\* ------------------------------------------------------------------------
\* C15 (as claimed): once the cache directory of a URL has been created, no
\* step of any clone_and_prepare call, sequential or concurrent, changes it:
\* nothing is checked out into it, added to it or removed from it.
C15_SnapshotImmutable ==
    [][\A dir \in DOMAIN cache_dirs :
           cache_dirs[dir].complete =>
               /\ dir \in DOMAIN cache_dirs'
               /\ cache_dirs'[dir] = cache_dirs[dir]]_vars

\* the identifier of every URL is 16 hexadecimal digits
SixteenHexDigits ==
    \A url \in URLs :
        /\ Len(hash_url(url)) = 16
        /\ \A i \in 1..Len(hash_url(url)) : hash_url(url)[i] \in 0..15

\* C16: hash_url gives every URL one identifier of 16 hexadecimal digits, the
\* same whatever ran before: every call for a URL returns the cache directory
\* CACHE_DIR/hash_url(url), the one the first call for it returned, the
\* backend's collection is named by the same identifier, and no other
\* directory ever appears under CACHE_DIR.
C16_HashUrlStable ==
    /\ SixteenHexDigits
    /\ \A dir \in DOMAIN cache_dirs :
           \E url \in URLs : dir = <<"cached_repos", hash_url(url)>> /\ Len(dir[2]) = 16
    /\ \A p \in Procs :
           JustPrepared(p) =>
               /\ rq[p].ret[1].repo_path = <<"cached_repos", hash_url(rq[p].url)>>
               /\ first_ret[rq[p].url] # <<>>
               /\ rq[p].ret[1].repo_path = first_ret[rq[p].url][1].repo_path
               /\ variant = "backend" =>
                      rq[p].ret[1].collection = <<"repo_chunks", hash_url(rq[p].url)>>
               /\ Streamlit => rq[p].ret[1].collection = <<"repo_chunks">>

\* a later call for a URL, made after calls for both URLs have returned
C16_Witness ==
    \E p \in Procs :
        /\ JustPrepared(p)
        /\ rq[p].hit
        /\ rq[p].url = "uB"
        /\ first_ret["uA"] # <<>>
        /\ first_ret["uB"] # <<>>
        /\ first_ret["uA"][1].repo_path # first_ret["uB"][1].repo_path

\* C19: a clone_and_prepare call that finds entries in the repository's
\* collection reads no file for fragmentation, computes no embedding, does not
\* call collection.add, and returns the collection as it found it.
C19_IndexedSkipsBuild ==
    \A p \in Procs :
        (rq[p].found # <<>> /\ Len(rq[p].found[1]) > 0) =>
            /\ pc[p] \notin {"cp_chunk", "cp_embed", "cp_add"}
            /\ rq[p].code_chunks = <<>>
            /\ rq[p].embeddings = <<>>
            /\ rq[p].calls.embed = 0
            /\ rq[p].calls.add = 0
            /\ rq[p].error \notin {"EmbeddingError", "IndexError"} \/ rq[p].calls.qembed = 1
            /\ JustPrepared(p) => colls[rq[p].ret[1].collection] = rq[p].found[1]

\* a call that found the collection filled and has returned it
C19_Witness ==
    \E p \in Procs :
        /\ JustPrepared(p)
        /\ rq[p].found # <<>>
        /\ Len(rq[p].found[1]) >= 2
        /\ rq[p].calls.clone = 0

\* C20 (as claimed): in every state the cache directory of a URL does not exist
\* or holds the complete checkout, and a call that is past the
\* repo_dir.exists() test works on a complete directory.
C20_AtomicRelocation ==
    /\ \A dir \in DOMAIN cache_dirs :
           /\ cache_dirs[dir].complete
           /\ \E url \in URLs : dir = RepoDir(url) /\ cache_dirs[dir].checkout = upstream[url]
    /\ \A p \in Procs :
           pc[p] \in {"cp_coll", "cp_chunk", "cp_embed", "cp_add", "cp_ret"} =>
               /\ RepoDir(rq[p].url) \in DOMAIN cache_dirs
               /\ cache_dirs[RepoDir(rq[p].url)].complete

\* ------------------------------------------------------------------------
\* Concurrent builds
\* ------------------------------------------------------------------------
\* C21 (as claimed): a collection that holds entries is never changed again by
\* any step of any request: no entry is added, replaced or removed.
C21_PopulatedCollectionFrozen ==
    [][\A name \in DOMAIN colls :
           Len(colls[name]) > 0 =>
               /\ name \in DOMAIN colls'
               /\ colls'[name] = colls[name]]_vars

\* both sessions made a first-time call for the same URL, both cloned it, no
\* call of either to git, the embedding model or Chroma failed, and both calls
\* are over
BothFirstTime ==
    /\ rq["p1"].url = rq["p2"].url
    /\ \A p \in Procs :
           /\ rq[p].kind = "load"
           /\ rq[p].calls.clone = 1
           /\ rq[p].error \in {"", "GenerationError"}
           /\ pc[p] \in {"gs_call", "gs_llm", "respond", "done"}

\* C22 (as claimed): after two concurrent first-time clone_and_prepare calls
\* for one uncached URL that both returned, the cache directory holds the one
\* checkout with no second copy nested in it, no temporary directory is left,
\* and the collection holds every fragment exactly once.
C22_ConcurrentFirstCalls ==
    BothFirstTime =>
        LET url == rq["p1"].url
            dir == RepoDir(url)
        IN /\ \A p \in Procs : rq[p].ret # <<>>
           /\ dir \in DOMAIN cache_dirs
           /\ cache_dirs[dir].complete
           /\ cache_dirs[dir].checkout = upstream[url]
           /\ cache_dirs[dir].nested = 0
           /\ \A p \in Procs : tmp[p] = "none"
           /\ colls[CollectionName(variant, url)] = AllEntriesOf(url)

\* ------------------------------------------------------------------------
\* The context of a question
\* ------------------------------------------------------------------------
\* the names the structural data has for a path (none when the path is absent)
KnownFunctions(cs, path) == IF path \in DOMAIN cs THEN GetFunctions(cs[path]) ELSE <<>>

KnownClasses(cs, path) == IF path \in DOMAIN cs THEN GetClasses(cs[path]) ELSE <<>>

IsPrefix(a, b) == Len(a) <= Len(b) /\ a = SubSeq(b, 1, Len(a))

\* C23: the context holds exactly one block per retrieved fragment, in the rank
\* order of the query result; block i carries the path and the text of fragment
\* i, and at most 3 function names and at most 3 class names, which are the
\* first names the structural data has for that path, none when it has none.
C23_ContextBlocks ==
    \A p \in Procs :
        rq[p].prompt # <<>> =>
            LET blocks == rq[p].prompt[1].context
                cs == AskedStructure(p)
            IN /\ Len(blocks) = Len(rq[p].retrieved)
               /\ \A i \in 1..Len(blocks) :
                      /\ blocks[i].path = rq[p].retrieved[i].path
                      /\ blocks[i].chunk = rq[p].retrieved[i].document
                      /\ Len(blocks[i].functions) <= 3
                      /\ Len(blocks[i].classes) <= 3
                      /\ IsPrefix(blocks[i].functions, KnownFunctions(cs, blocks[i].path))
                      /\ IsPrefix(blocks[i].classes, KnownClasses(cs, blocks[i].path))
                      /\ Len(blocks[i].functions) =
                             Min(3, Len(KnownFunctions(cs, blocks[i].path)))
                      /\ Len(blocks[i].classes) =
                             Min(3, Len(KnownClasses(cs, blocks[i].path)))
               /\ \A i \in 2..Len(blocks) :
                      Distance(rq[p].retrieved[i - 1].embedding, EmbedQuestion(rq[p].question))
                          <= Distance(rq[p].retrieved[i].embedding, EmbedQuestion(rq[p].question))

\* a context of two blocks for a file with four functions and one class
C23_Witness ==
    \E p \in Procs :
        /\ rq[p].prompt # <<>>
        /\ Len(rq[p].prompt[1].context) = 2
        /\ Len(rq[p].prompt[1].context[1].functions) = 3
        /\ Len(rq[p].prompt[1].context[1].classes) = 1
        /\ Len(KnownFunctions(AskedStructure(p), rq[p].prompt[1].context[1].path)) = 4

\* ------------------------------------------------------------------------
\* The order of the steps of one build
\* ------------------------------------------------------------------------
\* the fragments of the checkout in the cache slot of url
SlotChunks(url) ==
    BuildChunks(variant, cache_dirs[RepoDir(url)].checkout.files,
                cfg.size, cfg.overlap, url)

\* C24: within one build the steps run in the order checkout, fragmentation,
\* batch embedding, index population: fragmenting starts only with the checkout
\* in the cache slot, the embedder is called only with every fragment of the
\* checkout collected, and the collection is written only after the one
\* embedding call has returned a vector for every fragment.
C24_BuildOrder ==
    \A p \in Procs :
        LET url == rq[p].url
            fragmenting == pc[p] = "cp_chunk" \/ rq[p].code_chunks # <<>>
            embedding == pc[p] = "cp_embed" \/ rq[p].calls.embed > 0
            populating == pc[p] = "cp_add" \/ rq[p].calls.add > 0
        IN /\ fragmenting =>
                  /\ RepoDir(url) \in DOMAIN cache_dirs
                  /\ cache_dirs[RepoDir(url)].complete
                  /\ tmp[p] = "none"
                  /\ rq[p].calls.clone <= 1
           /\ embedding =>
                  /\ fragmenting
                  /\ rq[p].code_chunks # <<>>
                  /\ rq[p].code_chunks = SlotChunks(url)
                  /\ rq[p].calls.embed <= 1
           /\ populating =>
                  /\ embedding
                  /\ rq[p].calls.embed = 1
                  /\ Len(rq[p].embeddings) = Len(rq[p].code_chunks)
                  /\ rq[p].calls.add <= 1
           /\ (pc[p] \in {"cp_chunk", "cp_embed"} /\ rq[p].calls.add = 0) =>
                  colls[CollectionName(variant, url)] = <<>>

\* a build that has run all four steps: cloned, fragmented, embedded, stored
C24_Witness ==
    \E p \in Procs :
        /\ pc[p] = "cp_ret"
        /\ rq[p].calls.clone = 1
        /\ Len(rq[p].code_chunks) >= 2
        /\ rq[p].calls.embed = 1
        /\ rq[p].calls.add = 1
        /\ Len(colls[CollectionName(variant, rq[p].url)]) = Len(rq[p].code_chunks)

\* ------------------------------------------------------------------------
\* Which files are fragmented
\* ------------------------------------------------------------------------
\* a repository with files in and beside the skipped directories; a path is the
\* tokens of its string, so .github/ci.py is ".git", "hub", "/", "ci", ".py"
FileMain == [path |-> <<"src", "/", "main", ".py">>, ext |-> ".py",
             text |-> <<1, 2, 3, 4>>, functions |-> <<"main">>, classes |-> <<>>]

FileGitHook == [path |-> <<".git", "/", "hooks", "/", "h", ".py">>, ext |-> ".py",
                text |-> <<5, 6>>, functions |-> <<>>, classes |-> <<>>]

FileGithubCi == [path |-> <<".git", "hub", "/", "ci", ".py">>, ext |-> ".py",
                 text |-> <<7, 8>>, functions |-> <<"ci">>, classes |-> <<>>]

FileVenvSetup == [path |-> <<"tools", "/", "venv", "_setup", ".py">>, ext |-> ".py",
                  text |-> <<9>>, functions |-> <<>>, classes |-> <<>>]

FileModule == [path |-> <<"node_modules", "/", "m", ".js">>, ext |-> ".js",
               text |-> <<1, 1>>, functions |-> <<>>, classes |-> <<>>]

FilePage == [path |-> <<"web", "/", "page", ".html">>, ext |-> ".html",
             text |-> <<2, 2>>, functions |-> <<>>, classes |-> <<>>]

FileEmpty == [path |-> <<"src", "/", "empty", ".py">>, ext |-> ".py",
              text |-> <<>>, functions |-> <<>>, classes |-> <<>>]

RepoSkip == [files |-> <<FileMain, FileGitHook, FileGithubCi, FileVenvSetup,
                         FileEmpty, FileModule, FilePage>>,
             readme |-> <<"readme S">>,
             top |-> {"src", "tools", "web", "node_modules", ".github", ".git",
                      "README.md"}]

SkipInit ==
    /\ ChunkOff
    /\ variant \in Variants
    /\ upstream = [uA |-> RepoSkip, uB |-> RepoB]
    /\ cfg = [size |-> SysChunkSize, overlap |-> SysChunkOverlap, top_k |-> SysTopK]
    /\ cache_dirs = <<>>
    /\ tmp = [p \in Procs |-> "none"]
    /\ orphans = FALSE
    /\ colls = <<>>
    /\ clone_memo = <<>>
    /\ summary_memo = <<>>
    /\ openai_env = FALSE
    /\ session = [p \in Procs |-> FreshSession]
    /\ pc = [p \in Procs |-> "idle"]
    /\ rq = [p \in Procs |-> IdleRq]
    /\ first_ret = [u \in URLs |-> <<>>]
    /\ summary_log = [u \in URLs |-> [llm |-> 0, first |-> <<>>]]

SpecSkip == SkipInit /\ [][E2ENext]_vars

\* one of the directories on the path has a name in the skip set: a whole
\* component of the path, followed by a separator, is one of the names
InSkippedDirectory(path) ==
    \E i \in 1..(Len(path) - 1) :
        /\ path[i] \in SkipNames
        /\ i = 1 \/ path[i - 1] = "/"
        /\ path[i + 1] = "/"

\* the file loops of a build have run
Fragmented(p) == pc[p] \in {"cp_embed", "cp_add", "cp_ret"} /\ rq[p].code_chunks # <<>>

ContributesTo(f, chunks) == \E i \in 1..Len(chunks) : chunks[i].path = f.path

\* C25: a file with a recognised extension is left out of fragmentation only
\* when one of the directories on its path has a name in the skip set; every
\* other recognised, non-empty file contributes at least one fragment.
C25_SkippedOnlyInSkipDirectories ==
    \A p \in Procs :
        Fragmented(p) =>
            \A i \in 1..Len(upstream[rq[p].url].files) :
                LET f == upstream[rq[p].url].files[i] IN
                (/\ f.ext \in Exts(variant)
                 /\ Len(f.text) > 0
                 /\ ~InSkippedDirectory(f.path)) => ContributesTo(f, rq[p].code_chunks)

\* ------------------------------------------------------------------------
\* The entries of a collection after a build
\* ------------------------------------------------------------------------
\* a build has just stored its batch
BuiltNow(p) == pc[p] = "cp_ret" /\ rq[p].calls.add = 1 /\ rq[p].error = ""

\* C26: after a successful build the ids of the collection's entries are
\* exactly '0' .. 'n-1' with no duplicates (n the number of fragments), and
\* each entry's document is the text of the file its path names, sliced
\* [start_char, end_char), with 0 <= start_char < end_char <= the file's
\* length and end_char - start_char <= CHUNK_SIZE.
C26_EntriesAfterBuild ==
    \A p \in Procs :
        BuiltNow(p) =>
            LET es == colls[CollectionName(variant, rq[p].url)]
                files == cache_dirs[RepoDir(rq[p].url)].checkout.files
            IN /\ Len(es) = Len(rq[p].code_chunks)
               /\ \A i \in 1..Len(es) : es[i].id = str(i - 1)
               /\ \A i, j \in 1..Len(es) : es[i].id = es[j].id => i = j
               /\ \A i \in 1..Len(es) :
                      \E k \in 1..Len(files) :
                          /\ files[k].path = es[i].path
                          /\ 0 <= es[i].start_char
                          /\ es[i].start_char < es[i].end_char
                          /\ es[i].end_char <= Len(files[k].text)
                          /\ es[i].end_char - es[i].start_char <= cfg.size
                          /\ es[i].document =
                                 SubSeq(files[k].text, es[i].start_char + 1, es[i].end_char)

\* a build that stored three entries, the last one shorter than CHUNK_SIZE
C26_Witness ==
    \E p \in Procs :
        /\ BuiltNow(p)
        /\ LET es == colls[CollectionName(variant, rq[p].url)]
           IN /\ Len(es) = 3
              /\ es[3].id = str(2)
              /\ es[3].end_char - es[3].start_char < cfg.size
              /\ es[2].start_char > 0

\* ------------------------------------------------------------------------
\* Termination of the fragmentation loop
\* ------------------------------------------------------------------------
\* C27: for every file length L >= 0 and every configuration with O < C the
\* fragmentation loop terminates: each iteration moves start forward by exactly
\* C - O > 0, so the loop runs at most L times, and an empty file yields zero
\* fragments.
C27_ChunkLoopTerminates ==
    /\ <>(ck_pc = "done")
    /\ [][(ck_pc = "loop" /\ ck_start < ck_len) =>
              /\ ck_start' = ck_start + (ck_size - ck_overlap)
              /\ ck_start' > ck_start
              /\ Len(ck_spans') = Len(ck_spans) + 1]_vars
    /\ [](Len(ck_spans) <= ck_len)
    /\ []((ck_pc = "done" /\ ck_len = 0) => ck_spans = <<>>)
    /\ [](ck_pc = "done" => ck_start >= ck_len)

\* the longest run of the loop: a stride of one over the longest file
C27_Witness ==
    /\ ck_pc = "done"
    /\ ck_len = MaxLen
    /\ ck_size - ck_overlap = 1
    /\ Len(ck_spans) = MaxLen

\* ------------------------------------------------------------------------
\* The Streamlit session
\* ------------------------------------------------------------------------
\* the four values a successful load stores belong to one load: the summary is
\* the one generate_summary gave for this readme and this repo_path
SetTogether(s) ==
    /\ s.collection = <<CollectionName(variant, "uA")>>
    /\ s.repo_path # <<>>
    /\ s.repo_summary # <<>>
    /\ \E key \in DOMAIN summary_memo :
           /\ key.repo_path = s.repo_path[1]
           /\ key.readme = s.readme
           /\ summary_memo[key] = s.repo_summary[1]

\* C28 (as claimed): in a Streamlit session, after any sequence of load
\* attempts and questions, repo_loaded is true exactly when the most recent
\* load attempt succeeded; while it is true, collection, repo_path and
\* repo_summary are non-empty and were set together by that load; a failed
\* load sets repo_loaded to false and leaves summary, collection, repo_path and
\* readme as they were; and a question is answered only while repo_loaded is true.
C28_SessionFollowsLastLoad ==
    /\ [](\A p \in SeqProcs :
              /\ (rq[p].kind = "load" /\ pc[p] = "done") => session[p].repo_loaded
              /\ (rq[p].kind = "load" /\ pc[p] = "failed") => ~session[p].repo_loaded
              /\ session[p].repo_loaded => SetTogether(session[p])
              /\ rq[p].kind = "question" => session[p].repo_loaded)
    /\ [][\A p \in SeqProcs :
              /\ rq'[p].kind = "question" =>
                     session'[p].repo_loaded = session[p].repo_loaded
              /\ ~session'[p].repo_loaded =>
                     /\ session'[p].repo_summary = session[p].repo_summary
                     /\ session'[p].collection = session[p].collection
                     /\ session'[p].repo_path = session[p].repo_path
                     /\ session'[p].readme = session[p].readme]_vars

\* ------------------------------------------------------------------------
\* The summary cache of the Streamlit apps
\* ------------------------------------------------------------------------
\* C29: generate_summary in the Streamlit apps is memoized on its arguments
\* even when the language-model call failed: the error string (app.py) or the
\* offline summary (app_enhanced.py) is stored, every later load with the same
\* arguments gets that same text, and the language model is not called again
\* for them.
C29_FailedSummaryMemoized ==
    /\ [](Streamlit =>
              /\ \A p \in Procs :
                     (rq[p].kind = "load" /\ pc[p] \in {"respond", "done"}) =>
                         /\ SummaryKey(p) \in DOMAIN summary_memo
                         /\ rq[p].summary = <<summary_memo[SummaryKey(p)]>>
                         /\ rq[p].error = "GenerationError" =>
                                /\ rq[p].calls.llm = 1
                                /\ rq[p].summary[1].kind \in {"error", "basic"}
              /\ \A url \in URLs : summary_log[url].llm <= 1)
    /\ [][Streamlit =>
              /\ \A key \in DOMAIN summary_memo :
                     /\ key \in DOMAIN summary_memo'
                     /\ summary_memo'[key] = summary_memo[key]
              /\ \A p \in Procs :
                     (pc[p] = "gs_call" /\ SummaryKey(p) \in DOMAIN summary_memo) =>
                         (pc'[p] = "gs_call" \/
                             /\ pc'[p] = "respond"
                             /\ rq'[p].summary = <<summary_memo[SummaryKey(p)]>>
                             /\ rq'[p].calls.llm = 0)]_vars

\* a later load that got the text of the failed call from the cache
C29_Witness ==
    \E p \in Procs :
        /\ Streamlit
        /\ rq[p].kind = "load"
        /\ pc[p] = "done"
        /\ ~rq[p].fallback
        /\ rq[p].calls.llm = 0
        /\ rq[p].summary[1].kind \in {"error", "basic"}
        /\ summary_log[rq[p].url].llm = 1

\* ------------------------------------------------------------------------
\* The source files of an answer
\* ------------------------------------------------------------------------
\* the backend's answer_question has returned for an /ask request
AskReturned(p) == variant = "backend" /\ rq[p].kind = "ask" /\ pc[p] = "done"

\* C30: the context_files the backend's answer_question returns hold one path
\* per retrieved fragment in rank order, duplicates kept, when generation
\* succeeds; the list is empty on the shortcut path and when the
\* language-model call fails, although fragments were retrieved then.
C30_ContextFiles ==
    \A p \in Procs :
        AskReturned(p) =>
            /\ rq[p].qstate \in {"ANSWERED", "DIRECT_ANSWER", "FAILED"}
            /\ rq[p].qstate = "ANSWERED" =>
                   /\ Len(rq[p].context_files) = Len(rq[p].retrieved)
                   /\ \A i \in 1..Len(rq[p].retrieved) :
                          rq[p].context_files[i] = rq[p].retrieved[i].path
                   /\ rq[p].retrieved =
                          Query(colls[CollectionName(variant, rq[p].url)],
                                EmbedQuestion(rq[p].question), cfg.top_k)
            /\ rq[p].qstate = "DIRECT_ANSWER" =>
                   /\ rq[p].context_files = <<>>
                   /\ rq[p].calls.query = 0
            /\ rq[p].qstate = "FAILED" =>
                   /\ rq[p].context_files = <<>>
                   /\ rq[p].calls.query = 1

\* an answer whose two fragments come from the same file: the path is listed twice
C30_Witness ==
    \E p \in Procs :
        /\ AskReturned(p)
        /\ rq[p].qstate = "ANSWERED"
        /\ Len(rq[p].context_files) = 2
        /\ rq[p].context_files[1] = rq[p].context_files[2]

====
